---- MODULE Spec2Model ----
(***************************************************************************)
(* Model of src/app.py: process_duplicates (the per-community duplicate    *)
(* resolver) and the part of main that calls it and shows its result.      *)
(*                                                                         *)
(* An identifier is a sequence of one-character strings, so that slicing   *)
(* (str[:8], x[:-1]), endswith and concatenation are computed, not assumed.*)
(* A DataFrame is a sequence of rows; a row index idx is a position 1..n.  *)
(***************************************************************************)
EXTENDS Integers, Sequences, FiniteSets

VARIABLES
    upload,        \* the uploaded table: does it have the id column, and its rows
    pc,            \* position in main/process_duplicates
    df,            \* the working DataFrame: rows of customer_id, community_code, resolved_id
    communities,   \* communities of df['community'].unique() not yet visited
    community_idx, \* indices of the current community still to visit
    seen_ids,      \* the seen set of the current community
    ui,            \* what main has shown to the caller, in order
    out,           \* the two-column table returned and offered for download
    exhausted,     \* history: indices whose suffix scan found no free candidate
    history        \* history: the completed runs, oldest first

vars == <<upload, pc, df, communities, community_idx, seen_ids, ui, out, exhausted, history>>

(***************************************************************************)
(* Bounds of the checked inputs.                                           *)
(***************************************************************************)
MaxRows == 3
ExtraRun == 1
MaxRuns == 2

(***************************************************************************)
(* Program constants.                                                      *)
(***************************************************************************)
PrefixLen == 8

Alphabet ==
    << "0","1","2","3","4","5","6","7","8","9",
       "A","B","C","D","E","F","G","H","I","J","K","L","M",
       "N","O","P","Q","R","S","T","U","V","W","X","Y","Z" >>

(***************************************************************************)
(* String helpers, as Python computes them.                                *)
(***************************************************************************)
Min(a, b) == IF a < b THEN a ELSE b

\* s[:n]
Take(s, n) == SubSeq(s, 1, Min(n, Len(s)))

\* s[:-1]
DropLast(s) == IF Len(s) = 0 THEN s ELSE SubSeq(s, 1, Len(s) - 1)

\* s.endswith('x')
EndsWithLowerX(s) == Len(s) > 0 /\ s[Len(s)] = "x"

\* lambda x: x[:-1] + 'X' if x.endswith('x') else x
FixCaseKeep(s) == s
FixCase(s) == IF EndsWithLowerX(s) THEN DropLast(s) \o <<"X">> ELSE s

\* astype(str).str[:8], applied to the column as uploaded
CommunityOfFixed(raw) == Take(FixCase(raw), PrefixLen)
CommunityOf(raw) == Take(raw, PrefixLen)

\* Series.unique(): the distinct values in order of first appearance
RECURSIVE Unique(_)
Unique(s) ==
    IF s = <<>> THEN <<>>
    ELSE LET front == Unique(DropLast(s))
             last  == s[Len(s)]
         IN IF \E k \in 1..Len(front) : front[k] = last
            THEN front ELSE Append(front, last)

\* community_df.index: the indices of the rows of one community, ascending
RECURSIVE IndexOf(_, _, _)
IndexOf(frame, community, k) ==
    IF k > Len(frame) THEN <<>>
    ELSE IF frame[k].community_code = community
         THEN <<k>> \o IndexOf(frame, community, k + 1)
         ELSE IndexOf(frame, community, k + 1)

\* the suffix loop: the position in Alphabet of the first candidate
\* base + suffix that is not in seen, or 0 when the loop ends without break
RECURSIVE ScanFrom(_, _, _)
ScanFrom(base, seen, k) ==
    IF k > Len(Alphabet) THEN 0
    ELSE IF (base \o <<Alphabet[k]>>) \notin seen THEN k
         ELSE ScanFrom(base, seen, k + 1)

RECURSIVE ScanLastFree(_, _, _)
ScanLastFree(base, seen, k) ==
    IF k < 1 THEN 0
    ELSE IF (base \o <<Alphabet[k]>>) \notin seen THEN k
         ELSE ScanLastFree(base, seen, k - 1)

FirstFreeUnchecked(base, seen) == 1
FirstFreeDigitsOnly(base, seen) ==
    LET k == ScanFrom(base, seen, 1) IN IF k > 10 THEN 0 ELSE k
FirstFreeFromEnd(base, seen) == ScanLastFree(base, seen, Len(Alphabet))
FirstFree(base, seen) == ScanFrom(base, seen, 1)

(***************************************************************************)
(* The inputs checked.                                                     *)
(***************************************************************************)
P8 == <<"A","B","1","2","3","4","5","6">>
P7 == SubSeq(P8, 1, 7)

ShortIds ==
    { <<"A","B">>, <<"A","0">>,
      P7 \o <<"x">>, P7 \o <<"X">>,
      P8 \o <<"1">>, P8 \o <<"0">>, P8 \o <<"x">>, P8 \o <<"X">> }

RunIds  == { P8 \o <<"1">>, P8 \o <<"x">>, P8 \o <<"a">> }
EdgeIds == { P8 \o <<"1">>, P8 \o <<"0">>, <<"A","B">> }

SeqsUpTo(S, n) == UNION { [1..k -> S] : k \in 0..n }

Copies(id, n) == [k \in 1..n |-> id]

ShortInputs == SeqsUpTo(ShortIds, MaxRows)

RunInputs ==
    { pre \o Copies(d, n) \o post :
        pre \in SeqsUpTo(EdgeIds, 1), post \in SeqsUpTo(EdgeIds, 1),
        d \in RunIds, n \in Len(Alphabet)..(Len(Alphabet) + ExtraRun) }

Inputs == ShortInputs \cup RunInputs

(***************************************************************************)
(* main and process_duplicates.                                            *)
(***************************************************************************)
Init ==
    /\ upload \in { [hasId |-> h, rows |-> r] : h \in BOOLEAN, r \in Inputs }
    /\ pc = "start"
    /\ df = <<>>
    /\ communities = <<>>
    /\ community_idx = <<>>
    /\ seen_ids = {}
    /\ ui = <<>>
    /\ out = <<>>
    /\ exhausted = {}
    /\ history = <<>>

\* lines 16-17 raise, lines 166-167 catch: nothing else of the run happens
ColumnCheckSkipped == FALSE
ColumnMissing == ~upload.hasId

SchemaError ==
    /\ pc = "start"
    /\ ColumnMissing
    /\ pc' = "error"
    /\ ui' = Append(ui, "error")
    /\ UNCHANGED <<upload, df, communities, community_idx, seen_ids, out, exhausted, history>>

\* lines 20-30: one row per uploaded row
NormalizedRow(raw) ==
    [ customer_id    |-> FixCase(raw),
      community_code |-> CommunityOf(raw),
      resolved_id    |-> FixCase(raw) ]

Prepare ==
    /\ pc = "start"
    /\ ~ColumnMissing
    /\ df' = [k \in 1..Len(upload.rows) |-> NormalizedRow(upload.rows[k])]
    /\ communities' = Unique([k \in 1..Len(upload.rows) |-> df'[k].community_code])
    /\ community_idx' = <<>>
    /\ seen_ids' = {}
    /\ pc' = "groups"
    /\ UNCHANGED <<upload, ui, out, exhausted, history>>

\* lines 33-41: the next community, its indices, a fresh seen set
NextCommunity ==
    /\ pc = "groups"
    /\ community_idx = <<>>
    /\ communities # <<>>
    /\ community_idx' = IndexOf(df, Head(communities), 1)
    /\ communities' = Tail(communities)
    /\ seen_ids' = {}
    /\ UNCHANGED <<upload, pc, df, ui, out, exhausted, history>>

\* lines 53-54: df.loc[idx, resolved] = new_id
SetCustomerId(frame, idx, new_id) == [frame EXCEPT ![idx].customer_id = new_id]
SetResolved(frame, idx, new_id) == [frame EXCEPT ![idx].resolved_id = new_id]

\* line 60: seen_ids.add(original_id)
AddSeen(seen, id) == seen \cup {id}

\* lines 55-56: seen_ids.add(new_id)
AddNewIdForgotten(seen, new_id) == seen
AddNewId(seen, new_id) == seen \cup {new_id}

\* lines 44-48: is the row at idx a duplicate of something seen
IsSeenNever(frame, idx, seen) == FALSE
IsSeen(frame, idx, seen) == frame[idx].customer_id \in seen

\* lines 58-60: original_id not in seen_ids
KeepRow ==
    /\ pc = "groups"
    /\ community_idx # <<>>
    /\ LET idx == Head(community_idx) IN
        /\ ~IsSeen(df, idx, seen_ids)
        /\ seen_ids' = AddSeen(seen_ids, df[idx].customer_id)
    /\ community_idx' = Tail(community_idx)
    /\ UNCHANGED <<upload, pc, df, communities, ui, out, exhausted, history>>

\* lines 48-57: original_id in seen_ids and the scan breaks on a free candidate
RewriteRow ==
    /\ pc = "groups"
    /\ community_idx # <<>>
    /\ LET idx         == Head(community_idx)
           original_id == df[idx].customer_id
           base_id     == DropLast(original_id)
           k           == FirstFree(base_id, seen_ids)
           new_id      == base_id \o <<Alphabet[k]>>
       IN
        /\ IsSeen(df, idx, seen_ids)
        /\ k # 0
        /\ df' = SetResolved(df, idx, new_id)
        /\ seen_ids' = AddNewId(seen_ids, new_id)
    /\ community_idx' = Tail(community_idx)
    /\ UNCHANGED <<upload, pc, communities, ui, out, exhausted, history>>

\* lines 48-52: original_id in seen_ids and the scan ends without a break
ExhaustRow ==
    /\ pc = "groups"
    /\ community_idx # <<>>
    /\ LET idx         == Head(community_idx)
           base_id     == DropLast(df[idx].customer_id)
       IN
        /\ IsSeen(df, idx, seen_ids)
        /\ FirstFree(base_id, seen_ids) = 0
        /\ exhausted' = exhausted \cup {idx}
    /\ community_idx' = Tail(community_idx)
    /\ UNCHANGED <<upload, pc, df, communities, seen_ids, ui, out, history>>

\* line 63: df[[customer_id, resolved_id]]
Project(frame) ==
    [k \in 1..Len(frame) |->
        [customer_id |-> frame[k].customer_id, resolved_id |-> frame[k].resolved_id]]

\* lines 147-164: what main shows after process_duplicates returns
Shown == <<"success", "dataframe", "download">>

\* lines 62-67 and 144-164
Finish ==
    /\ pc = "groups"
    /\ community_idx = <<>>
    /\ communities = <<>>
    /\ out' = Project(df)
    /\ ui' = ui \o Shown
    /\ pc' = "done"
    /\ history' = Append(history,
                    [rows |-> upload.rows, out |-> Project(df), exhausted |-> exhausted])
    /\ UNCHANGED <<upload, df, communities, community_idx, seen_ids, exhausted>>

\* lines 135-144 again: the resolved column is uploaded as the id column
Rerun ==
    /\ pc = "done"
    /\ Len(history) < MaxRuns
    /\ upload' = [hasId |-> TRUE, rows |-> [k \in 1..Len(out) |-> out[k].resolved_id]]
    /\ pc' = "start"
    /\ df' = <<>>
    /\ communities' = <<>>
    /\ community_idx' = <<>>
    /\ seen_ids' = {}
    /\ ui' = <<>>
    /\ out' = <<>>
    /\ exhausted' = {}
    /\ UNCHANGED history

Next ==
    \/ SchemaError
    \/ Prepare
    \/ NextCommunity
    \/ KeepRow
    \/ RewriteRow
    \/ ExhaustRow
    \/ Finish
    \/ Rerun

Spec == Init /\ [][Next]_vars

(***************************************************************************)
(* Vocabulary of the properties.                                           *)
(***************************************************************************)
Done == pc = "done"
Resolving == pc \in {"groups", "done"}
Rows == 1..Len(df)
SameGroup(i, j) == df[i].community_code = df[j].community_code
Group(i) == {j \in Rows : SameGroup(i, j)}
Earlier(i) == {j \in Rows : j < i /\ SameGroup(i, j)}
\* the resolved ids the earlier rows of i's group ended with
TakenBefore(i) == {df[j].resolved_id : j \in Earlier(i)}
Rewritten(i) == df[i].resolved_id # df[i].customer_id
Candidate(i, k) == DropLast(df[i].customer_id) \o <<Alphabet[k]>>
Symbols == 1..Len(Alphabet)
\* s with a trailing 'x' written as 'X', spelled out character by character
IsCaseFixOf(t, s) ==
    /\ Len(t) = Len(s)
    /\ \A k \in 1..Len(s) :
         t[k] = (IF k = Len(s) /\ s[k] = "x" THEN "X" ELSE s[k])
\* c is the first n characters of s, or all of s when s is shorter
IsPrefixOf(c, s, n) ==
    /\ Len(c) = (IF Len(s) < n THEN Len(s) ELSE n)
    /\ \A k \in 1..Len(c) : c[k] = s[k]

(***************************************************************************)
(* C1: when no record exhausts the alphabet, no two output rows of the     *)
(* same community have equal resolved ids.                                 *)
(***************************************************************************)
C1_UniqueInCommunity ==
    (Done /\ exhausted = {}) =>
        \A i \in Rows : \A j \in Rows :
            (i < j /\ SameGroup(i, j)) => out[i].resolved_id # out[j].resolved_id

C1_Witness ==
    /\ Done /\ exhausted = {}
    /\ \E i \in Rows : \E j \in Earlier(i) :
         /\ df[j].customer_id = df[i].customer_id
         /\ out[i].resolved_id # out[j].resolved_id

(***************************************************************************)
(* C2 as stated: the first record of a group carrying a customer_id keeps  *)
(* it, and a record is rewritten only if an earlier record of its group has *)
(* the same customer_id.                                                   *)
(***************************************************************************)
C2_FirstOccurrenceWins ==
    Done =>
        \A i \in Rows :
            Rewritten(i) =>
                \E j \in Earlier(i) : df[j].customer_id = df[i].customer_id

(***************************************************************************)
(* C2 as amended: a record is rewritten only if an earlier record of its   *)
(* group ended with a resolved id (kept or assigned) equal to its          *)
(* customer_id, so a record whose customer_id no earlier record of the     *)
(* group ended with keeps it; and a later record with the same customer_id *)
(* as an earlier one of its group is rewritten, unless its scan exhausted. *)
(***************************************************************************)
C2_FirstUntakenWins ==
    Done =>
        \A i \in Rows :
            /\ Rewritten(i) => df[i].customer_id \in TakenBefore(i)
            /\ (\E j \in Earlier(i) : df[j].customer_id = df[i].customer_id)
                  => (Rewritten(i) \/ i \in exhausted)
            /\ (Earlier(i) = {}) => ~Rewritten(i)

C2_Witness ==
    /\ Done
    /\ \E i \in Rows :
         /\ Rewritten(i)
         /\ \A j \in Earlier(i) : df[j].customer_id # df[i].customer_id

(***************************************************************************)
(* C3 as stated: if the first run exhausted nothing, a second run on the   *)
(* first run's resolved ids rewrites nothing.                              *)
(***************************************************************************)
SecondRunDone == Done /\ Len(history) = 2
SecondRunKeepsAll ==
    \A i \in 1..Len(history[2].out) :
        history[2].out[i].resolved_id = history[1].out[i].resolved_id

C3_Idempotent ==
    (SecondRunDone /\ history[1].exhausted = {}) => SecondRunKeepsAll

(***************************************************************************)
(* C3 as amended: the same, for inputs all of whose ids are longer than    *)
(* the 8 characters of the community code.                                 *)
(***************************************************************************)
AllLong(rows) == \A i \in 1..Len(rows) : Len(rows[i]) > PrefixLen

C3_IdempotentLongIds ==
    (SecondRunDone /\ history[1].exhausted = {} /\ AllLong(history[1].rows))
        => SecondRunKeepsAll

C3_Witness ==
    /\ SecondRunDone /\ history[1].exhausted = {} /\ AllLong(history[1].rows)
    /\ \E i \in 1..Len(history[1].out) :
         history[1].out[i].resolved_id # history[1].out[i].customer_id

(***************************************************************************)
(* C4: on exhaustion the run raises no error, the exhausted row is emitted *)
(* with its colliding customer_id, and the exhaustion is reported.         *)
(***************************************************************************)
C4_NonFatal ==
    (Done /\ exhausted # {}) =>
        /\ \A k \in 1..Len(ui) : ui[k] # "error"
        /\ Len(out) = Len(upload.rows)
        /\ \A i \in exhausted : out[i].resolved_id = out[i].customer_id

C4_ExhaustionReported ==
    (Done /\ exhausted # {}) =>
        /\ \A k \in 1..Len(ui) : ui[k] # "error"
        /\ \A i \in exhausted : out[i].resolved_id = out[i].customer_id
        /\ \E k \in 1..Len(ui) : ui[k] \notin {"success", "dataframe", "download"}

(***************************************************************************)
(* C5: with the id column missing the run fails before any normalization   *)
(* or resolution, and the caller gets an error message and no table or     *)
(* download.                                                               *)
(***************************************************************************)
C5_MissingColumnFailsFast ==
    /\ (~upload.hasId /\ pc # "start") => pc = "error"
    /\ (pc = "error") =>
         /\ ui = <<"error">>
         /\ df = <<>> /\ out = <<>> /\ seen_ids = {} /\ communities = <<>>

C5_Witness == pc = "error" /\ ~upload.hasId /\ upload.rows # <<>>

(***************************************************************************)
(* C6: one output row per input row, in input order, whose first column is *)
(* the case-fixed customer_id of that input row; resolution never changes  *)
(* a customer_id.                                                          *)
(***************************************************************************)
C6_CustomerIdFrame ==
    /\ Resolving =>
         /\ Len(df) = Len(upload.rows)
         /\ \A i \in Rows : IsCaseFixOf(df[i].customer_id, upload.rows[i])
    /\ Done =>
         /\ Len(out) = Len(upload.rows)
         /\ \A i \in Rows : IsCaseFixOf(out[i].customer_id, upload.rows[i])

C6_Witness ==
    /\ Done
    /\ \E i \in Rows : Rewritten(i)
    /\ \E i \in Rows : upload.rows[i] # out[i].customer_id

(***************************************************************************)
(* C7: the case fix precedes every duplicate check: ids are compared,      *)
(* stored in the seen set and output with a trailing 'x' as 'X', so in one *)
(* group an id ending in 'x' and the same id ending in 'X' are duplicates. *)
(***************************************************************************)
DifferOnlyInCase(s, t) == s # t /\ IsCaseFixOf(t, s)

C7_CaseFixBeforeCheck ==
    /\ Resolving =>
         /\ \A s \in seen_ids : ~EndsWithLowerX(s)
         /\ \A i \in Rows : ~EndsWithLowerX(df[i].customer_id)
                            /\ ~EndsWithLowerX(df[i].resolved_id)
    /\ Done =>
         \A i \in Rows : \A j \in Earlier(i) :
            (DifferOnlyInCase(upload.rows[i], upload.rows[j])
               \/ DifferOnlyInCase(upload.rows[j], upload.rows[i]))
            => (Rewritten(i) \/ i \in exhausted)

C7_Witness ==
    /\ Done
    /\ \E i \in Rows : \E j \in Earlier(i) :
         /\ DifferOnlyInCase(upload.rows[j], upload.rows[i])
         /\ Rewritten(i)
    /\ \E i \in Rows : \E j \in Earlier(i) :
         /\ DifferOnlyInCase(upload.rows[i], upload.rows[j])
         /\ Rewritten(i)

(***************************************************************************)
(* C8 as stated: the community code is the first 8 characters of the       *)
(* case-fixed customer_id (all of it when shorter), so records with equal  *)
(* customer_id are in the same group.                                      *)
(***************************************************************************)
C8_CommunityOfFixedId ==
    Resolving =>
        /\ \A i \in Rows :
             IsPrefixOf(df[i].community_code, df[i].customer_id, PrefixLen)
        /\ \A i \in Rows : \A j \in Rows :
             df[i].customer_id = df[j].customer_id => SameGroup(i, j)

(***************************************************************************)
(* C8 as amended: the community code is the first 8 characters of the id   *)
(* as uploaded, before the case fix (all of it when shorter); records with *)
(* equal uploaded ids are in the same group, and so are records with equal *)
(* case-fixed ids longer than 8 characters. The code differs from the      *)
(* prefix of the case-fixed id exactly for ids of at most 8 characters     *)
(* that end in 'x'.                                                        *)
(***************************************************************************)
C8_CommunityOfUploadedId ==
    Resolving =>
        /\ \A i \in Rows :
             /\ IsPrefixOf(df[i].community_code, upload.rows[i], PrefixLen)
             /\ IsPrefixOf(df[i].community_code, df[i].customer_id, PrefixLen)
                  <=> ~(Len(upload.rows[i]) <= PrefixLen
                          /\ EndsWithLowerX(upload.rows[i]))
        /\ \A i \in Rows : \A j \in 1..(i - 1) :
             \/ SameGroup(i, j)
             \/ /\ upload.rows[i] # upload.rows[j]
                /\ \/ df[i].customer_id # df[j].customer_id
                   \/ Len(df[i].customer_id) <= PrefixLen

C8_Witness ==
    /\ Resolving
    /\ \E i \in Rows : Len(upload.rows[i]) < PrefixLen
    /\ \E i \in Rows : Len(upload.rows[i]) = PrefixLen /\ EndsWithLowerX(upload.rows[i])
    /\ \E i \in Rows : Len(upload.rows[i]) > PrefixLen /\ EndsWithLowerX(upload.rows[i])

(***************************************************************************)
(* C9: a record whose customer_id is already in its group's seen set gets  *)
(* base + s for the earliest symbol s of 0-9A-Z with base + s not in the   *)
(* seen set; three copies of AB1234561 give AB1234561, AB1234560,          *)
(* AB1234562.                                                              *)
(***************************************************************************)
ThreeCopies == Copies(P8 \o <<"1">>, 3)

C9_EarliestFreeSymbol ==
    Done =>
        /\ \A i \in Rows :
             LET taken == TakenBefore(i)
                 free  == {k \in Symbols : Candidate(i, k) \notin taken}
             IN (df[i].customer_id \in taken) =>
                   \A k \in free :
                      (\A m \in free : k <= m) => out[i].resolved_id = Candidate(i, k)
        /\ (upload.rows = ThreeCopies) =>
             [k \in 1..3 |-> out[k].resolved_id]
                = << P8 \o <<"1">>, P8 \o <<"0">>, P8 \o <<"2">> >>

C9_Witness ==
    /\ Done
    /\ upload.rows = ThreeCopies
    /\ Rewritten(2) /\ Rewritten(3)

(***************************************************************************)
(* C10: a record exhausts only if at least 36 earlier records of its group *)
(* ended with a resolved id base + symbol for its base; so a group of at   *)
(* most 36 records is fully de-duplicated.                                 *)
(***************************************************************************)
C10_ExhaustionNeedsFullAlphabet ==
    Done =>
        /\ \A i \in exhausted :
             Cardinality({j \in Earlier(i) :
                 \E k \in Symbols : df[j].resolved_id = Candidate(i, k)})
               >= Len(Alphabet)
        /\ \A i \in Rows :
             Cardinality(Group(i)) <= Len(Alphabet) =>
                /\ i \notin exhausted
                /\ \A j \in Earlier(i) : out[j].resolved_id # out[i].resolved_id

C10_Witness ==
    /\ Done
    /\ \E i \in exhausted : Cardinality(Group(i)) = Len(Alphabet) + 1
    /\ \E i \in Rows : Cardinality(Group(i)) = 1

====
